---- MODULE Spec2Model ----
(* A model of the vector-2d library: the elementwise expression engine      *)
(* (dm/elementwise.h), the fixed-size vector types (dm/vector.h, vec.h,     *)
(* vec2.h) and the batch reductions over sequences of vectors.              *)
(*                                                                          *)
(* Positions are 0-based, as in the source: a container of dimension N is a *)
(* function over 0..N-1.                                                    *)
EXTENDS Integers, Sequences, FiniteSets, TLC

\* ------------------------------------------------------------------ bounds

\* Dimension of the container operands of the expression engine.
ExprDim == 2


Positions == 0 .. (ExprDim - 1)
\* The expression nodes one run builds: an inner one and the one over it.
NodeIds == {1, 2}
\* The scalar temporary of the factory calls, the 5 of make_sum_expression(a, 5).
LitVal == 5
\* What undefined behaviour (a read of a destroyed object, an integer division
\* by zero) may yield: the stale value, or something else.
Garbage == {LitVal, LitVal + 2}

VARIABLES
    a,        \* std::array<int, N> a: an lvalue container
    b,        \* int b[N]: an lvalue container of another kind
    s,        \* int s: an lvalue scalar
    junk,     \* what undefined behaviour yields in this run
    nodes,    \* the OperandExpression objects built so far, by id
    last,     \* the last operation and what it observed
    variant,  \* the vector type under test: which header defines it
    T,        \* its scalar type
    lhsVec,   \* a vector operand
    rhsVec,   \* a vector operand
    seq,      \* a sequence of vectors, the input of a batch reduction
    out       \* what the last vector operation returned

exprVars == <<a, b, s, junk, nodes, last>>
vecVars == <<variant, T, lhsVec, rhsVec, seq, out>>
vars == <<a, b, s, junk, nodes, last, variant, T, lhsVec, rhsVec, seq, out>>

\* ------------------------------------------------- dm::math, the operators

\* dm::math::abs_difference
abs_difference(lhs, rhs) == IF lhs < rhs THEN rhs - lhs ELSE lhs - rhs

\* C++ integer division truncates toward zero.
TruncDiv(x, y) ==
    LET ax == IF x < 0 THEN -x ELSE x
        ay == IF y < 0 THEN -y ELSE y
        q  == ax \div ay
    IN IF (x < 0) # (y < 0) THEN -q ELSE q

\* The closures the factories wrap.
negate(el) == -el
sum(lhs_el, rhs_el) == lhs_el + rhs_el
\* (a slip: the operands taken in the other order)
difference_swapped(lhs_el, rhs_el) == rhs_el - lhs_el
difference(lhs_el, rhs_el) == lhs_el - rhs_el
\* (the callee read as math::abs_difference; math_call resolves the name as
\* written)
absolute_difference(lhs_el, rhs_el) == abs_difference(lhs_el, rhs_el)
product(lhs_el, rhs_el) == lhs_el * rhs_el
quotient(lhs_el, rhs_el) == TruncDiv(lhs_el, rhs_el)

UnaryOps == {"negate"}
BinaryOps == {"sum", "difference", "absolute_difference", "product", "quotient"}

\* operator_(xs...): the node's closure applied to one value per operand.
\* An integer division by zero is undefined behaviour.
operator_(op, xs) ==
    CASE op = "negate" -> negate(xs[1])
      [] op = "sum" -> sum(xs[1], xs[2])
      [] op = "difference" -> difference(xs[1], xs[2])
      [] op = "absolute_difference" -> absolute_difference(xs[1], xs[2])
      [] op = "product" -> product(xs[1], xs[2])
      [] op = "quotient" ->
            IF xs[2] = 0 THEN junk ELSE quotient(xs[1], xs[2])

\* ------------------------------------------------------------ the operands

\* An operand as the factory receives it: an lvalue container, the lvalue
\* scalar, a scalar temporary (a literal such as the 5 of
\* make_sum_expression(a, 5)), or another expression node.
ArrayRef(name) == [type |-> "array", name |-> name]
ScalarRef == [type |-> "scalar"]
LitRef(v) == [type |-> "lit", val |-> v]
NodeRef(k) == [type |-> "node", id |-> k]

Free == [state |-> "free"]
Dead == [state |-> "dead"]

IsNode(n) == n.state = "live"

\* concept Indexable: the operand supports t[0].
Indexable(ref) == ref.type \in {"array", "node"}

\* Whether the object a node's stored reference names still exists. A scalar
\* temporary, and a node passed as a temporary, lives to the end of the full
\* expression that built the node holding the reference.
RefAlive(ns, k, ref) ==
    CASE ref.type = "array" -> TRUE
      [] ref.type = "scalar" -> TRUE
      [] ref.type = "lit" -> ns[k].fresh
      [] ref.type = "node" -> IsNode(ns[ref.id])


ArrayVal(name) == IF name = "a" THEN a ELSE b

\* What a read yields: the value, and the container positions it read.
Outcome(v, r) == [val |-> v, reads |-> r]

RECURSIVE Index(_, _, _)

\* object[i] of an Indexable operand
Subscript(ns, ref, i) ==
    IF ref.type = "array"
    THEN Outcome(ArrayVal(ref.name)[i], {<<ref.name, i>>})
    ELSE Index(ns, ref.id, i)

\* (a slip: a scalar treated as a one-element container, not broadcast)
element_unbroadcast(ns, k, ref, i) ==
    IF ~RefAlive(ns, k, ref)
    THEN Outcome(junk, {})
    ELSE IF Indexable(ref)
         THEN Subscript(ns, ref, i)
         ELSE Outcome(IF i = 0 THEN (IF ref.type = "lit" THEN ref.val ELSE s) ELSE 0, {})

\* element(object, i): object[i] for an Indexable operand, the object itself
\* for any other. A read through a dangling reference is undefined behaviour.
element(ns, k, ref, i) ==
    IF ~RefAlive(ns, k, ref)
    THEN Outcome(junk, {})
    ELSE IF Indexable(ref)
         THEN Subscript(ns, ref, i)
         ELSE Outcome(IF ref.type = "lit" THEN ref.val ELSE s, {})

\* OperandExpression::operator[]: the closure applied to element(operand, i)
\* of every operand.
Index(ns, k, i) ==
    LET n == ns[k]
        e1 == element(ns, k, n.args[1], i)
    IN IF Len(n.args) = 1
       THEN Outcome(operator_(n.op, <<e1.val>>), e1.reads)
       ELSE LET e2 == element(ns, k, n.args[2], i)
            IN Outcome(operator_(n.op, <<e1.val, e2.val>>), e1.reads \cup e2.reads)

\* internal::max(lhs, rhs) and its variadic form, over e[lo..hi], a pack of two
\* elements or more (geom_max_element covers the pack of one)
max(lhs, rhs) == IF lhs < rhs THEN rhs ELSE lhs

RECURSIVE max_pack(_, _, _)
max_pack(e, lo, hi) ==
    IF lo = hi THEN e[lo] ELSE max(e[lo], max_pack(e, lo + 1, hi))

\* internal::max_element(object, index_sequence<I...>): max(object[I]...)
max_element(e, n) == max_pack(e, 0, n - 1)

\* internal::element_sum(object, index_sequence<I...>): (object[I] + ...)
RECURSIVE sum_pack(_, _, _)
sum_pack(e, lo, hi) ==
    IF lo = hi THEN e[lo] ELSE e[lo] + sum_pack(e, lo + 1, hi)

element_sum(e, n) == sum_pack(e, 0, n - 1)

\* Every position of a node read in turn: other[I]...
ReadAll(ns, k) == [i \in Positions |-> Index(ns, k, i)]

ValuesOf(f) == [i \in Positions |-> f[i].val]
ReadsOf(f) == UNION {f[i].reads : i \in Positions}

\* ------------------------------------------------------- the expression run

NoVec == <<>>

Last(kind, k, i, v, vec, r) ==
    [kind |-> kind, node |-> k, i |-> i, val |-> v, vec |-> vec, reads |-> r]

\* The arrays a run starts from: a rotation of -3, 2, 0 over the positions.
Cycle == <<-3, 2, 0>>
ArrayInit(r) == [i \in Positions |-> Cycle[((i + r) % 3) + 1]]

NoOut == [op |-> "none"]

\* No vector operation is under way.
VecIdle ==
    /\ variant = "none"
    /\ T = "int"
    /\ lhsVec = NoVec
    /\ rhsVec = NoVec
    /\ seq = <<>>
    /\ out = NoOut

Init ==
    /\ a = ArrayInit(0)
    /\ b = ArrayInit(1)
    /\ s = 2
    /\ junk \in Garbage
    /\ nodes = [k \in NodeIds |-> Free]
    /\ last = Last("none", 0, 0, 0, NoVec, {})
    /\ VecIdle

\* What a factory call may be given: an lvalue, a scalar temporary, or a node
\* that exists (a variable, or a temporary of the same full expression).
Operands(ns) ==
    {ArrayRef("a"), ArrayRef("b"), ScalarRef, LitRef(LitVal)}
        \cup {NodeRef(j) : j \in {j \in NodeIds : IsNode(ns[j])}}

\* (a slip: a constructor that copies its container operands)
ConstructorReads_copying(args) ==
    UNION {IF args[m].type = "array"
           THEN {<<args[m].name, i>> : i \in Positions}
           ELSE {} : m \in 1 .. Len(args)}

\* The constructor stores a reference to each operand: it reads no element.
ConstructorReads(args) == {}

\* make_<op>_expression(operands...): a new node over references to the
\* operands. A run builds node 1, then node 2 over it.
MakeExpression(k, op, args) ==
    /\ nodes[k] = Free
    /\ \A j \in NodeIds : j < k =>
          /\ IsNode(nodes[j])
          /\ \E m \in 1 .. Len(args) : args[m] = NodeRef(j)
    /\ nodes' = [nodes EXCEPT ![k] =
                    [state |-> "live", op |-> op, args |-> args, fresh |-> TRUE]]
    /\ last' = Last("make", k, 0, 0, NoVec, ConstructorReads(args))
    /\ UNCHANGED <<a, b, s, junk, vecVars>>

MakeUnary ==
    \E k \in NodeIds, op \in UnaryOps, x \in Operands(nodes) :
        MakeExpression(k, op, <<x>>)

MakeBinary ==
    \E k \in NodeIds, op \in BinaryOps, x \in Operands(nodes), y \in Operands(nodes) :
        MakeExpression(k, op, <<x, y>>)

IsOperand(ns, j) ==
    \E k \in NodeIds :
        /\ IsNode(ns[k])
        /\ \E m \in 1 .. Len(ns[k].args) : ns[k].args[m] = NodeRef(j)

\* A node the client reads: one that exists and is not borrowed by another
\* (a borrowed node is read through the node over it).
Readable(ns, k) == IsNode(ns[k]) /\ ~IsOperand(ns, k)

\* node[i]
IndexNode ==
    \E k \in NodeIds, i \in Positions :
        /\ Readable(nodes, k)
        /\ LET o == Index(nodes, k, i)
           IN last' = Last("index", k, i, o.val, NoVec, o.reads)
        /\ UNCHANGED <<a, b, s, junk, nodes, vecVars>>

\* Vector::from_elementwise_expression_ / operator_assign_: {other[I]...}
Materialize ==
    \E k \in NodeIds :
        /\ Readable(nodes, k)
        /\ LET f == ReadAll(nodes, k)
           IN last' = Last("materialize", k, 0, 0, ValuesOf(f), ReadsOf(f))
        /\ UNCHANGED <<a, b, s, junk, nodes, vecVars>>

\* geom::element_sum(node) and geom::max_element(node)
Reduce ==
    \E k \in NodeIds, red \in {"element_sum", "max_element"} :
        /\ Readable(nodes, k)
        /\ LET f == ReadAll(nodes, k)
           IN last' = Last(red, k, 0,
                           IF red = "element_sum"
                           THEN element_sum(ValuesOf(f), ExprDim)
                           ELSE max_element(ValuesOf(f), ExprDim),
                           NoVec, ReadsOf(f))
        /\ UNCHANGED <<a, b, s, junk, nodes, vecVars>>

\* The end of the full expression: every temporary it made is destroyed. The
\* node the expression evaluates to may initialise a variable (keep); its
\* scalar temporaries and the nodes passed to it as temporaries are gone.
EndFullExpression ==
    \E keep \in NodeIds \cup {0} :
        /\ \E k \in NodeIds : IsNode(nodes[k]) /\ nodes[k].fresh
        /\ keep # 0 => IsNode(nodes[keep]) /\ nodes[keep].fresh /\ ~IsOperand(nodes, keep)
        /\ nodes' = [k \in NodeIds |->
                        IF IsNode(nodes[k]) /\ nodes[k].fresh
                        THEN IF k = keep
                             THEN [nodes[k] EXCEPT !.fresh = FALSE]
                             ELSE Dead
                        ELSE nodes[k]]
        /\ last' = Last("end", keep, 0, 0, NoVec, {})
        /\ UNCHANGED <<a, b, s, junk, vecVars>>

Next ==
    \/ MakeUnary
    \/ MakeBinary
    \/ IndexNode
    \/ Materialize
    \/ Reduce
    \/ EndFullExpression

Spec == Init /\ [][Next]_vars

\* ------------------------------------------- claims on the expression engine

\* The quotient C++ defines for integers: (x/y)*y + x%y == x, the remainder
\* taking the sign of x.
CQuotient(x, y) ==
    LET ax == IF x < 0 THEN -x ELSE x
    IN CHOOSE q \in -ax .. ax :
          LET r == x - q * y
          IN /\ (IF r < 0 THEN -r ELSE r) < (IF y < 0 THEN -y ELSE y)
             /\ (r = 0 \/ (r < 0) = (x < 0))

RECURSIVE NodeMeaning(_, _)

\* The value an operand has at position i: a container's element i, a scalar
\* itself, a node's own meaning at i.
OperandMeaning(ref, i) ==
    CASE ref.type = "array" -> ArrayVal(ref.name)[i]
      [] ref.type = "scalar" -> s
      [] ref.type = "lit" -> ref.val
      [] ref.type = "node" -> NodeMeaning(ref.id, i)

\* What the node k denotes at position i.
NodeMeaning(k, i) ==
    LET n == nodes[k]
        x == OperandMeaning(n.args[1], i)
        y == OperandMeaning(n.args[2], i)
    IN CASE n.op = "negate" -> 0 - x
         [] n.op = "sum" -> x + y
         [] n.op = "difference" -> x - y
         [] n.op = "absolute_difference" -> IF x < y THEN y - x ELSE x - y
         [] n.op = "product" -> x * y
         [] n.op = "quotient" -> CQuotient(x, y)

\* Every object the node k borrows, directly or through a borrowed node,
\* exists.
RECURSIVE OperandsAlive(_)
OperandsAlive(k) ==
    \A m \in 1 .. Len(nodes[k].args) :
        LET ref == nodes[k].args[m]
        IN /\ RefAlive(nodes, k, ref)
           /\ ref.type = "node" => OperandsAlive(ref.id)

\* No division of the tree under k divides by zero at position i.
RECURSIVE NoZeroDivisor(_, _)
NoZeroDivisor(k, i) ==
    /\ \A m \in 1 .. Len(nodes[k].args) :
          nodes[k].args[m].type = "node" => NoZeroDivisor(nodes[k].args[m].id, i)
    /\ nodes[k].op = "quotient" => OperandMeaning(nodes[k].args[2], i) # 0

\* The read has defined behaviour: within the lifetime of every borrowed
\* operand, and dividing by no zero.
DefinedRead(k, i) == OperandsAlive(k) /\ NoZeroDivisor(k, i)

ReadKinds == {"index", "materialize", "element_sum", "max_element"}

IsScalarRef(ref) == ref.type \in {"scalar", "lit"}
ScalarOf(ref) == IF ref.type = "lit" THEN ref.val ELSE s

\* The binary operations, as the specification names them.
Binary(op, x, y) ==
    CASE op = "sum" -> x + y
      [] op = "difference" -> x - y
      [] op = "absolute_difference" -> IF x < y THEN y - x ELSE x - y
      [] op = "product" -> x * y
      [] op = "quotient" -> CQuotient(x, y)

C3_OperandsOutliveReads ==
    last.kind \in ReadKinds => OperandsAlive(last.node)

\* C4: laziness. A factory call reads no element and changes no operand and
\* no other node; node[i] reads position i only; every position of a
\* container has been read only after a vector was built from a node or a
\* reduction consumed one.
C4_Lazy ==
    [][/\ last'.kind = "make" =>
            /\ last'.reads = {}
            /\ a' = a /\ b' = b /\ s' = s
            /\ \A k \in NodeIds : nodes[k] # Free => nodes'[k] = nodes[k]
       /\ last'.kind = "index" => \A r \in last'.reads : r[2] = last'.i
       /\ (\E c \in {"a", "b"} : \A i \in Positions : <<c, i>> \in last'.reads)
            => last'.kind \in {"materialize", "element_sum", "max_element"}
      ]_vars

\* C4 witness: in one full expression a node over a and b was built without
\* a read, then a[1] and b[1] alone were read through it.
C4_Witness ==
    /\ last.kind = "index" /\ last.i = 1
    /\ last.reads = {<<"a", 1>>, <<"b", 1>>}
    /\ nodes[last.node].fresh

\* ------------------------------------------------ the fixed-size vector types

\* The largest dimension count N the vector types are instantiated with.
MaxDim == 3
Dims == 1 .. MaxDim

\* Element values of the vectors compared.
Scalars == {-1, 0, 1}
Vectors(N) == [0 .. (N - 1) -> Scalars]
Dim(v) == Cardinality(DOMAIN v)

\* dm::geom::Vector (dm/vector.h), dm::geom::Vec (vec.h), dm::Vec (vec2.h)
Variants == {"Vector", "geom_Vec", "dm_Vec"}

\* No expression is under way.
ExprIdle ==
    /\ a = ArrayInit(0)
    /\ b = ArrayInit(1)
    /\ s = 2
    /\ junk = LitVal
    /\ nodes = [k \in NodeIds |-> Free]
    /\ last = Last("none", 0, 0, 0, NoVec, {})

\* std::array's operator==: every position equal
array_equal(x, y, n) == \A i \in 0 .. (n - 1) : x[i] = y[i]

\* std::array's operator<: std::lexicographical_compare from position i; two
\* ranges of one length that never differ are not less.
RECURSIVE lexicographical_compare(_, _, _, _)
lexicographical_compare(x, y, i, n) ==
    IF i = n THEN FALSE
    ELSE IF x[i] < y[i] THEN TRUE
    ELSE IF y[i] < x[i] THEN FALSE
    ELSE lexicographical_compare(x, y, i + 1, n)

\* Vector::operator== and operator< of dm/vector.h
Vector_operator_equal(l, r) == array_equal(l, r, Dim(l))
Vector_operator_less(l, r) == lexicographical_compare(l, r, 0, Dim(l))

\* Vec::operator_equal_ of vec.h: ((lhs[I] == rhs[I]) && ...) over 0..N-1
operator_equal_(l, r, n) == \A I \in 0 .. (n - 1) : l[I] = r[I]

\* Vec::operator_less_than_ of vec.h over index_sequence<0..m-1>: the overload
\* for one index when m = 1, else the fold over ||, false for an empty pack.
operator_less_than_(l, r, m) ==
    IF m = 1
    THEN l[0] < r[0]
    ELSE \E I \in 0 .. (m - 1) :
            ((l[I] # r[I] /\ l[I] < r[I]) \/ l[I + 1] < r[I + 1])

\* Vec::operator== and operator< of vec.h; operator< passes
\* make_index_sequence<N-1>.
geom_Vec_operator_equal(l, r) == operator_equal_(l, r, Dim(l))
geom_Vec_operator_less(l, r) == operator_less_than_(l, r, Dim(l) - 1)

\* Vec::operator== and operator< of vec2.h: x() and y() only
dm_Vec_operator_equal(l, r) == l[0] = r[0] /\ l[1] = r[1]
dm_Vec_operator_less(l, r) == IF l[0] # r[0] THEN l[0] < r[0] ELSE l[1] < r[1]

operator_equal(vt, l, r) ==
    CASE vt = "Vector" -> Vector_operator_equal(l, r)
      [] vt = "geom_Vec" -> geom_Vec_operator_equal(l, r)
      [] vt = "dm_Vec" -> dm_Vec_operator_equal(l, r)

operator_less(vt, l, r) ==
    CASE vt = "Vector" -> Vector_operator_less(l, r)
      [] vt = "geom_Vec" -> geom_Vec_operator_less(l, r)
      [] vt = "dm_Vec" -> dm_Vec_operator_less(l, r)

\* The operators every vector type derives from == and <.
operator_not_equal(vt, l, r) == ~operator_equal(vt, l, r)
operator_greater(vt, l, r) == operator_less(vt, r, l)
operator_less_equal(vt, l, r) == ~operator_greater(vt, l, r)
operator_greater_equal(vt, l, r) == ~operator_less(vt, l, r)

\* Two vectors of one type and dimension. The accessors of vec2.h check no
\* bound and its comparisons read x() and y(): its Vec has N >= 2.
InitVector ==
    /\ ExprIdle
    /\ variant \in Variants
    /\ T = "int"
    /\ \E N \in Dims :
          /\ variant = "dm_Vec" => N >= 2
          /\ lhsVec \in Vectors(N)
          /\ rhsVec \in Vectors(N)
    /\ seq = <<>>
    /\ out = NoOut

\* lhs == rhs, lhs != rhs, lhs < rhs, lhs > rhs, lhs <= rhs, lhs >= rhs
Compare ==
    /\ out' = [op |-> "compare",
               eq |-> operator_equal(variant, lhsVec, rhsVec),
               ne |-> operator_not_equal(variant, lhsVec, rhsVec),
               lt |-> operator_less(variant, lhsVec, rhsVec),
               gt |-> operator_greater(variant, lhsVec, rhsVec),
               le |-> operator_less_equal(variant, lhsVec, rhsVec),
               ge |-> operator_greater_equal(variant, lhsVec, rhsVec)]
    /\ UNCHANGED <<exprVars, variant, T, lhsVec, rhsVec, seq>>

\* ---- the named constructors

\* What a constructor call ends in: a failed assert ends the program; else
\* the vector returned, with the positions the constructor wrote.
Aborted == [kind |-> "abort"]
Returned(v, w) == [kind |-> "value", val |-> v, written |-> w]

\* Vector::make_unit_ of dm/vector.h: vector_type{(I == dimension ? 1 : 0)...}
Vector_make_unit_(dimension, N) ==
    Returned([I \in 0 .. (N - 1) |-> IF I = dimension THEN 1 ELSE 0],
             0 .. (N - 1))

\* Vector::make_unit(dimension): assert(dimension < N) is compiled out of a
\* build that defines NDEBUG.
Vector_make_unit(dimension, N, ndebug) ==
    IF ~ndebug /\ ~(dimension < N)
    THEN Aborted
    ELSE Vector_make_unit_(dimension, N)

\* (a slip: the aggregate {value}, the rest value-initialized)
Vector_make_repeated_first(value, N) ==
    Returned([I \in 0 .. (N - 1) |-> IF I = 0 THEN value ELSE 0], 0 .. (N - 1))

\* Vector::make_repeated_ of dm/vector.h: vector_type{(DummyI, value)...}
Vector_make_repeated_(value, N) ==
    Returned([DummyI \in 0 .. (N - 1) |-> value], 0 .. (N - 1))

\* Aggregate initialization of the N elements from a shorter list: the
\* elements after the list are value-initialized.
aggregate(list, N) ==
    Returned([I \in 0 .. (N - 1) |-> IF I < Len(list) THEN list[I + 1] ELSE 0],
             0 .. (N - 1))

\* Vec::unit_x, unit_y, unit_z of vec.h: {1}, {0, 1}, {0, 0, 1}
geom_Vec_unit(axis, N) ==
    aggregate([k \in 1 .. (axis + 1) |-> IF k = axis + 1 THEN 1 ELSE 0], N)

\* Vec::make_repeated of vec.h: a default-initialized vector, then
\* vector[i] = value for every i < N.
geom_Vec_make_repeated(value, N) ==
    Returned([i \in 0 .. (N - 1) |-> value], 0 .. (N - 1))

\* Vec::unit_x, unit_y, unit_z of vec2.h: `Vec v;` leaves every element
\* indeterminate, then one element is set to 1.
dm_Vec_unit(axis, N, indeterminate) ==
    Returned([I \in 0 .. (N - 1) |-> IF I = axis THEN 1 ELSE indeterminate],
             {axis})

\* make_unit<D>(), unit_x(), unit_y(), unit_z(): the axis is checked when the
\* program is built (static_assert in dm/vector.h and vec.h); an axis outside
\* a Vec of vec2.h is an out-of-bounds write and is not called.
UnitAxis ==
    /\ \E axis \in 0 .. (Dim(lhsVec) - 1), g \in Garbage :
          out' = [op |-> "unit", axis |-> axis,
                  res |-> CASE variant = "Vector" -> Vector_make_unit_(axis, Dim(lhsVec))
                            [] variant = "geom_Vec" -> geom_Vec_unit(axis, Dim(lhsVec))
                            [] variant = "dm_Vec" -> dm_Vec_unit(axis, Dim(lhsVec), g)]
    /\ UNCHANGED <<exprVars, variant, T, lhsVec, rhsVec, seq>>

\* make_unit(dimension) of dm/vector.h, for any size_t argument
MakeUnit ==
    /\ variant = "Vector"
    /\ \E dimension \in 0 .. MaxDim, ndebug \in BOOLEAN :
          out' = [op |-> "make_unit", axis |-> dimension, ndebug |-> ndebug,
                  res |-> Vector_make_unit(dimension, Dim(lhsVec), ndebug)]
    /\ UNCHANGED <<exprVars, variant, T, lhsVec, rhsVec, seq>>

\* make_repeated(value) of dm/vector.h and vec.h
MakeRepeated ==
    /\ variant \in {"Vector", "geom_Vec"}
    /\ \E value \in Scalars :
          out' = [op |-> "make_repeated", value |-> value,
                  res |-> IF variant = "Vector"
                          THEN Vector_make_repeated_(value, Dim(lhsVec))
                          ELSE geom_Vec_make_repeated(value, Dim(lhsVec))]
    /\ UNCHANGED <<exprVars, variant, T, lhsVec, rhsVec, seq>>

NextVector ==
    \/ Compare
    \/ UnitAxis
    \/ MakeUnit
    \/ MakeRepeated

SpecVector == InitVector /\ [][NextVector]_vars

\* --------------------------------------------------- claims on the comparisons

\* x is before y in the lexicographic order: the first position where they
\* differ has the smaller element in x.
LexLess(x, y) ==
    \E k \in DOMAIN x :
        /\ \A j \in DOMAIN x : j < k => x[j] = y[j]
        /\ x[k] < y[k]

\* C5: operator< is the lexicographic order, for every vector type and every
\* N >= 1; vectors equal at every position are not less than each other.
C5_LexicographicOrder ==
    out.op = "compare" => (out.lt <=> LexLess(lhsVec, rhsVec))

ExactlyOne(p, q, r) ==
    (p /\ ~q /\ ~r) \/ (~p /\ q /\ ~r) \/ (~p /\ ~q /\ r)

\* C6: the order is a strict total order: exactly one of a < b, a == b,
\* b < a holds, and a < b with b < c gives a < c.
C6_StrictTotalOrder ==
    out.op = "compare" =>
        /\ ExactlyOne(out.lt, out.eq, out.gt)
        /\ \A c \in Vectors(Dim(lhsVec)) :
              (out.lt /\ operator_less(variant, rhsVec, c))
                  => operator_less(variant, lhsVec, c)

\* C7: a == b exactly when every one of the N positions matches, and a != b
\* is its negation.
C7_ElementwiseEquality ==
    out.op = "compare" =>
        /\ out.eq <=> (\A i \in DOMAIN lhsVec : lhsVec[i] = rhsVec[i])
        /\ out.ne <=> ~out.eq

\* ------------------------------------------- reductions over vector sequences

\* The longest sequence of vectors reduced.
MaxSeqLen == 3

\* Width in bits of the integer element type.
IntBits == 4

\* N of Vec3
Vec3_N == 3
Vec3_Dims == 0 .. (Vec3_N - 1)

\* std::numeric_limits<T>: for an integer type min() is the lowest value; for
\* a floating type min() is the smallest positive value, here the unit in
\* which the element values are counted, and lowest() is -max().
numeric_limits_max(t) == 2 ^ (IntBits - 1) - 1

numeric_limits_min(t) ==
    IF t = "int" THEN -(2 ^ (IntBits - 1)) ELSE 1

\* The element types and the vector types instantiated with them.
Instantiations ==
    {<<"Vector", "int">>, <<"Vector", "float">>,
     <<"geom_Vec", "int">>, <<"geom_Vec", "float">>,
     <<"dm_Vec", "int">>}

\* Element values of the vectors reduced: a negative one and the largest.
ElemVals(t) == {-1, numeric_limits_max(t)}
Vec3s(t) == [Vec3_Dims -> ElemVals(t)]
SeqsOf(S) == UNION {[1 .. n -> S] : n \in 0 .. MaxSeqLen}

\* std::optional: std::nullopt or a value; a plain container of vec2.h
\* The program is rejected by the compiler: there is no result.
IllFormed == [kind |-> "ill-formed"]

Nullopt == [kind |-> "nullopt"]
Value(v) == [kind |-> "value", val |-> v]
Container(e) == [kind |-> "container", elems |-> e]

\* make_repeated(value)
make_repeated(v) == [I \in Vec3_Dims |-> v]

std_min(x, y) == IF y < x THEN y ELSE x
\* (a slip: the smaller of the two)
std_max_lesser(x, y) == IF x < y THEN x ELSE y
std_max(x, y) == IF x < y THEN y ELSE x

\* The loop of internal::min_extent from element i of the sequence on:
\* ((min[I] = std::min(min[I], (*vec_it)[I])), ...)
RECURSIVE min_loop(_, _, _)
min_loop(acc, sq, i) ==
    IF i > Len(sq) THEN acc
    ELSE min_loop([I \in Vec3_Dims |-> std_min(acc[I], sq[i][I])], sq, i + 1)

\* The loop of internal::max_extent
RECURSIVE max_loop(_, _, _)
max_loop(acc, sq, i) ==
    IF i > Len(sq) THEN acc
    ELSE max_loop([I \in Vec3_Dims |-> std_max(acc[I], sq[i][I])], sq, i + 1)

\* std::min_element under the comparator lhs[D] < rhs[D], scanning from
\* element i with smallest the best so far; Len(sq) + 1 is the end iterator.
RECURSIVE min_element_from(_, _, _, _)
min_element_from(sq, D, smallest, i) ==
    IF i > Len(sq) THEN smallest
    ELSE IF sq[i][D] < sq[smallest][D]
         THEN min_element_from(sq, D, i, i + 1)
         ELSE min_element_from(sq, D, smallest, i + 1)

\* The begin iterator, whatever the sequence holds.
min_element_begin(sq, D) == 1

min_element(sq, D) ==
    IF Len(sq) = 0 THEN Len(sq) + 1 ELSE min_element_from(sq, D, 1, 2)

\* std::max_element under the same comparator
RECURSIVE max_element_from(_, _, _, _)
max_element_from(sq, D, largest, i) ==
    IF i > Len(sq) THEN largest
    ELSE IF sq[largest][D] < sq[i][D]
         THEN max_element_from(sq, D, i, i + 1)
         ELSE max_element_from(sq, D, largest, i + 1)

std_max_element(sq, D) ==
    IF Len(sq) = 0 THEN Len(sq) + 1 ELSE max_element_from(sq, D, 1, 2)

\* dm/vector.h: min<Dimension>(begin, end) and max<Dimension>(begin, end)
Vector_min(D, sq) ==
    LET it == min_element(sq, D)
    IN  IF it = Len(sq) + 1 THEN Nullopt ELSE Value(sq[it][D])

Vector_max(D, sq) ==
    LET it == std_max_element(sq, D)
    IN  IF it = Len(sq) + 1 THEN Nullopt ELSE Value(sq[it][D])

\* vec.h and vec2.h: min<Dimension>(vectors) and max<Dimension>(vectors)
Vec_min(D, sq) ==
    IF Len(sq) = 0 THEN Nullopt ELSE Value(sq[min_element(sq, D)][D])

Vec_max(D, sq) ==
    IF Len(sq) = 0 THEN Nullopt ELSE Value(sq[std_max_element(sq, D)][D])

min_D(vt, D, sq) == IF vt = "Vector" THEN Vector_min(D, sq) ELSE Vec_min(D, sq)
max_D(vt, D, sq) == IF vt = "Vector" THEN Vector_max(D, sq) ELSE Vec_max(D, sq)

\* X, Y, Z
AxisOf == [x |-> 0, y |-> 1, z |-> 2]
Axes == DOMAIN AxisOf

\* min_x, min_y, min_z and max_x, max_y, max_z
min_axis(vt, ax, sq) == min_D(vt, AxisOf[ax], sq)
max_axis(vt, ax, sq) == max_D(vt, AxisOf[ax], sq)

\* dm/vector.h: internal::min_extent, max_extent and extents
Vector_min_extent(t, sq) ==
    IF Len(sq) = 0 THEN Nullopt
    ELSE Value(min_loop(make_repeated(numeric_limits_max(t)), sq, 1))

Vector_max_extent(t, sq) ==
    IF Len(sq) = 0 THEN Nullopt
    ELSE Value(max_loop(make_repeated(numeric_limits_min(t)), sq, 1))

\* (a slip: the pair in the other order)
Vector_extents_swapped(t, sq) ==
    IF Len(sq) = 0 THEN Nullopt
    ELSE Value(<<max_loop(make_repeated(numeric_limits_min(t)), sq, 1),
                 min_loop(make_repeated(numeric_limits_max(t)), sq, 1)>>)

Vector_extents(t, sq) ==
    IF Len(sq) = 0 THEN Nullopt
    ELSE Value(<<min_loop(make_repeated(numeric_limits_max(t)), sq, 1),
                 max_loop(make_repeated(numeric_limits_min(t)), sq, 1)>>)

\* vec.h: both loops start from dimension_min = numeric_limits::min()
geom_Vec_min_extent(t, sq) ==
    IF Len(sq) = 0 THEN Nullopt
    ELSE Value(min_loop(make_repeated(numeric_limits_min(t)), sq, 1))

geom_Vec_max_extent(t, sq) ==
    IF Len(sq) = 0 THEN Nullopt
    ELSE Value(max_loop(make_repeated(numeric_limits_min(t)), sq, 1))

geom_Vec_extents(t, sq) ==
    IF Len(sq) = 0 THEN Nullopt
    ELSE Value(<<geom_Vec_min_extent(t, sq).val, geom_Vec_max_extent(t, sq).val>>)

\* vec2.h: min_extent and max_extent return a VecContainer, an empty one for
\* an empty input, else {min<Indices>(vectors)...}; extents returns an optional.
dm_Vec_min_extent(sq) ==
    IF Len(sq) = 0 THEN Container(<<>>)
    ELSE Container([I \in Vec3_Dims |-> Vec_min(I, sq)])

dm_Vec_max_extent(sq) ==
    IF Len(sq) = 0 THEN Container(<<>>)
    ELSE Container([I \in Vec3_Dims |-> Vec_max(I, sq)])

dm_Vec_extents(sq) ==
    IF Len(sq) = 0 THEN Nullopt
    ELSE Value(<<dm_Vec_min_extent(sq), dm_Vec_max_extent(sq)>>)

min_extent(vt, t, sq) ==
    CASE vt = "Vector" -> Vector_min_extent(t, sq)
      [] vt = "geom_Vec" -> geom_Vec_min_extent(t, sq)
      [] vt = "dm_Vec" -> dm_Vec_min_extent(sq)

max_extent(vt, t, sq) ==
    CASE vt = "Vector" -> Vector_max_extent(t, sq)
      [] vt = "geom_Vec" -> geom_Vec_max_extent(t, sq)
      [] vt = "dm_Vec" -> dm_Vec_max_extent(sq)

extents(vt, t, sq) ==
    CASE vt = "Vector" -> Vector_extents(t, sq)
      [] vt = "geom_Vec" -> geom_Vec_extents(t, sq)
      [] vt = "dm_Vec" -> dm_Vec_extents(sq)

\* A sequence of Vec3 of one vector type and element type.
InitExtents ==
    /\ ExprIdle
    /\ \E inst \in Instantiations : variant = inst[1] /\ T = inst[2]
    /\ lhsVec = NoVec
    /\ rhsVec = NoVec
    /\ seq \in SeqsOf(Vec3s(T))
    /\ out = NoOut

Reduction(op, D, res) == [op |-> op, D |-> D, res |-> res]

\* min<D>(seq)
Min ==
    /\ \E D \in Vec3_Dims : out' = Reduction("min", D, min_D(variant, D, seq))
    /\ UNCHANGED <<exprVars, variant, T, lhsVec, rhsVec, seq>>

\* max<D>(seq)
Max ==
    /\ \E D \in Vec3_Dims : out' = Reduction("max", D, max_D(variant, D, seq))
    /\ UNCHANGED <<exprVars, variant, T, lhsVec, rhsVec, seq>>

\* min_x(seq), min_y(seq), min_z(seq); those of vec2.h name X, Y, Z in the
\* container type and are not instantiable.
MinAxis ==
    /\ variant # "dm_Vec"
    /\ \E ax \in Axes :
          out' = Reduction("min_axis", AxisOf[ax], min_axis(variant, ax, seq))
    /\ UNCHANGED <<exprVars, variant, T, lhsVec, rhsVec, seq>>

\* max_x(seq), max_y(seq), max_z(seq)
MaxAxis ==
    /\ variant # "dm_Vec"
    /\ \E ax \in Axes :
          out' = Reduction("max_axis", AxisOf[ax], max_axis(variant, ax, seq))
    /\ UNCHANGED <<exprVars, variant, T, lhsVec, rhsVec, seq>>

\* min_extent(seq)
MinExtent ==
    /\ out' = Reduction("min_extent", 0, min_extent(variant, T, seq))
    /\ UNCHANGED <<exprVars, variant, T, lhsVec, rhsVec, seq>>

\* max_extent(seq)
MaxExtent ==
    /\ out' = Reduction("max_extent", 0, max_extent(variant, T, seq))
    /\ UNCHANGED <<exprVars, variant, T, lhsVec, rhsVec, seq>>

\* extents(seq)
Extents ==
    /\ out' = Reduction("extents", 0, extents(variant, T, seq))
    /\ UNCHANGED <<exprVars, variant, T, lhsVec, rhsVec, seq>>

NextExtents ==
    \/ Min
    \/ Max
    \/ MinAxis
    \/ MaxAxis
    \/ MinExtent
    \/ MaxExtent
    \/ Extents

SpecExtents == InitExtents /\ [][NextExtents]_vars

\* ---------------------------------------------------- claims on the reductions

\* The values the sequence holds at dimension D.
ColumnOf(sq, D) == {sq[i][D] : i \in 1 .. Len(sq)}
SetMin(S) == CHOOSE m \in S : \A x \in S : m <= x
SetMax(S) == CHOOSE m \in S : \A x \in S : x <= m

\* C8: over a non-empty sequence, element D of min_extent is the minimum of
\* v[D] over the sequence and element D of max_extent the maximum, for every
\* D and every element value (Vector of dm/vector.h, Vec of vec.h).
C8_ExtentPerDimension ==
    (variant \in {"Vector", "geom_Vec"} /\ seq # <<>>) =>
        /\ out.op = "min_extent" =>
              \A D \in Vec3_Dims : out.res.val[D] = SetMin(ColumnOf(seq, D))
        /\ out.op = "max_extent" =>
              \A D \in Vec3_Dims : out.res.val[D] = SetMax(ColumnOf(seq, D))

ReductionOps ==
    {"min", "max", "min_axis", "max_axis", "min_extent", "max_extent", "extents"}

\* C9: every reduction of an empty sequence returns the empty optional, never
\* a default-valued result, and of a non-empty sequence returns a value.
C9_EmptyIsNullopt ==
    out.op \in ReductionOps =>
        /\ seq = <<>> => out.res = Nullopt
        /\ seq # <<>> => out.res # Nullopt

\* C10: min<D> (max<D>) of a non-empty sequence is the smallest (largest)
\* v[D] in it, whatever the order and the ties; min_x, min_y, min_z are
\* min<0>, min<1>, min<2> and max_x, max_y, max_z are max<0>, max<1>, max<2>.
C10_MinMaxPerDimension ==
    /\ (out.op \in {"min", "min_axis"} /\ seq # <<>>)
          => out.res = Value(SetMin(ColumnOf(seq, out.D)))
    /\ (out.op \in {"max", "max_axis"} /\ seq # <<>>)
          => out.res = Value(SetMax(ColumnOf(seq, out.D)))
    /\ out.op = "min_axis" => out.res = min_D(variant, out.D, seq)
    /\ out.op = "max_axis" => out.res = max_D(variant, out.D, seq)

\* min_z over three vectors whose smallest z is tied and not first.
C10_Witness ==
    /\ out.op = "min_axis"
    /\ out.D = 2
    /\ variant = "Vector"
    /\ Len(seq) = 3
    /\ seq[1][2] = numeric_limits_max(T)
    /\ seq[2][2] = -1
    /\ seq[3][2] = -1
    /\ out.res = Value(-1)

\* A std::optional holds a value.
has_value(r) == r # Nullopt

ArithDims == {1, 2}

\* Element values computed with: the extremes of int, and small ones.
ArithVals ==
    {numeric_limits_min("int"), -1, 0, 2, numeric_limits_max("int")}
ArithVectors == UNION {[0 .. (N - 1) -> ArithVals] : N \in ArithDims}

\* The scalar operand n of value * n and value / n.
ScalarVals == {-1, 0, 2}

\* The values of int.
InRange(x) == numeric_limits_min("int") <= x /\ x <= numeric_limits_max("int")

\* Two's complement wrap-around of x to the width of int.
Wrap(x) ==
    ((x - numeric_limits_min("int")) % (2 ^ IntBits)) + numeric_limits_min("int")

\* An int result whose exact value is x. A signed overflow is undefined
\* behaviour: the build wraps around, or yields an unrelated value.
int_result(x, wraps) ==
    IF InRange(x) THEN x ELSE IF wraps THEN Wrap(x) ELSE junk

\* value[I] / n; a division by zero is undefined behaviour.
int_divide(x, n, wraps) ==
    IF n = 0 THEN junk ELSE int_result(TruncDiv(x, n), wraps)

\* {-value[I]...}
elementwise_negate_(value, wraps) ==
    [I \in DOMAIN value |-> int_result(-value[I], wraps)]

\* (a slip: the operands taken in the other order)
elementwise_subtract_swapped(l, r, wraps) ==
    [I \in DOMAIN l |-> int_result(r[I] - l[I], wraps)]

\* {(lhs[I] - rhs[I])...}
elementwise_subtract_(l, r, wraps) ==
    [I \in DOMAIN l |-> int_result(l[I] - r[I], wraps)]

\* (a slip: every element computed from position 0)
elementwise_add_first(l, r, wraps) ==
    [I \in DOMAIN l |-> int_result(l[0] + r[0], wraps)]

\* {(lhs[I] + rhs[I])...}
elementwise_add_(l, r, wraps) ==
    [I \in DOMAIN l |-> int_result(l[I] + r[I], wraps)]

\* (a slip: position 0 left unscaled)
elementwise_multiply_tail(value, n, wraps) ==
    [I \in DOMAIN value |->
        IF I = 0 THEN value[I] ELSE int_result(value[I] * n, wraps)]

\* {(value[I] * n)...}
elementwise_multiply_(value, n, wraps) ==
    [I \in DOMAIN value |-> int_result(value[I] * n, wraps)]

\* {(value[I] / n)...}
elementwise_divide_(value, n, wraps) ==
    [I \in DOMAIN value |-> int_divide(value[I], n, wraps)]

\* Vector's operator-(value), operator-(lhs, rhs), operator+(lhs, rhs),
\* operator*(value, n), operator*(n, value), operator/(value, n)
operator_negate(value, wraps) == elementwise_negate_(value, wraps)
operator_minus(l, r, wraps) == elementwise_subtract_(l, r, wraps)
operator_plus(l, r, wraps) == elementwise_add_(l, r, wraps)
operator_multiply(value, n, wraps) == elementwise_multiply_(value, n, wraps)
operator_multiply_left(n, value, wraps) == operator_multiply(value, n, wraps)
operator_divide(value, n, wraps) == elementwise_divide_(value, n, wraps)

\* operator-=, operator+=, operator*=, operator/=: the value *this is
\* assigned, *this - other and so on, computed before the assignment.
\* (a slip: other - *this)
operator_minus_assign_swapped(self, other, wraps) ==
    operator_minus(other, self, wraps)

operator_minus_assign(self, other, wraps) == operator_minus(self, other, wraps)
operator_plus_assign(self, other, wraps) == operator_plus(self, other, wraps)
operator_multiply_assign(self, n, wraps) == operator_multiply(self, n, wraps)
operator_divide_assign(self, n, wraps) == operator_divide(self, n, wraps)

\* internal::element_sum over the elements of int: (object[I] + ...)
RECURSIVE int_element_sum(_, _, _, _)
int_element_sum(e, lo, hi, wraps) ==
    IF lo = hi THEN e[lo]
    ELSE int_result(e[lo] + int_element_sum(e, lo + 1, hi, wraps), wraps)

\* (a slip: only the first product)
dot_product_first(l, r, wraps) == int_result(product(l[0], r[0]), wraps)

\* dot_product(lhs, rhs): element_sum(make_product_expression(lhs, rhs)); the
\* node is read inside the full expression that builds it.
dot_product(l, r, wraps) ==
    LET e == [I \in DOMAIN l |-> int_result(product(l[I], r[I]), wraps)]
    IN  int_element_sum(e, 0, Dim(l) - 1, wraps)

\* magnitude_squared(elements)
magnitude_squared(el, wraps) == dot_product(el, el, wraps)

\* Two int vectors of one dimension; no operation yet.
InitArith ==
    /\ ExprIdle
    /\ variant = "Vector"
    /\ T = "int"
    /\ lhsVec \in ArithVectors
    /\ rhsVec \in ArithVectors
    /\ Dim(lhsVec) = Dim(rhsVec)
    /\ seq = <<>>
    /\ out = NoOut

CompoundOps == {"+=", "-=", "*=", "/="}

\* A run ends with its compound assignment.
Assigned == out.op \in CompoundOps

\* -value, and -(-value)
Negate ==
    /\ ~Assigned
    /\ \E wraps \in BOOLEAN :
          out' = [op |-> "negate", wraps |-> wraps,
                  res |-> operator_negate(lhsVec, wraps),
                  twice |-> operator_negate(operator_negate(lhsVec, wraps), wraps)]
    /\ UNCHANGED <<exprVars, variant, T, lhsVec, rhsVec, seq>>

\* lhs + rhs, and rhs + lhs
Add ==
    /\ ~Assigned
    /\ \E wraps \in BOOLEAN :
          out' = [op |-> "add", wraps |-> wraps,
                  res |-> operator_plus(lhsVec, rhsVec, wraps),
                  rev |-> operator_plus(rhsVec, lhsVec, wraps)]
    /\ UNCHANGED <<exprVars, variant, T, lhsVec, rhsVec, seq>>

\* lhs - rhs, lhs - lhs, and (lhs + rhs) - rhs
Subtract ==
    /\ ~Assigned
    /\ \E wraps \in BOOLEAN :
          out' = [op |-> "subtract", wraps |-> wraps,
                  res |-> operator_minus(lhsVec, rhsVec, wraps),
                  self |-> operator_minus(lhsVec, lhsVec, wraps),
                  round |-> operator_minus(operator_plus(lhsVec, rhsVec, wraps),
                                           rhsVec, wraps)]
    /\ UNCHANGED <<exprVars, variant, T, lhsVec, rhsVec, seq>>

\* value * n, n * value, and (value * n) / n
Multiply ==
    /\ ~Assigned
    /\ \E wraps \in BOOLEAN, n \in ScalarVals :
          out' = [op |-> "multiply", wraps |-> wraps, n |-> n,
                  res |-> operator_multiply(lhsVec, n, wraps),
                  left |-> operator_multiply_left(n, lhsVec, wraps),
                  back |-> operator_divide(operator_multiply(lhsVec, n, wraps),
                                           n, wraps)]
    /\ UNCHANGED <<exprVars, variant, T, lhsVec, rhsVec, seq>>

\* value / n
Divide ==
    /\ ~Assigned
    /\ \E wraps \in BOOLEAN, n \in ScalarVals :
          out' = [op |-> "divide", wraps |-> wraps, n |-> n,
                  res |-> operator_divide(lhsVec, n, wraps)]
    /\ UNCHANGED <<exprVars, variant, T, lhsVec, rhsVec, seq>>

\* lhs += other and lhs -= other, other being rhs or lhs itself. The value
\* assigned is computed from the operands as they are before the assignment;
\* the assignment returns *this.
AssignVector ==
    /\ ~Assigned
    /\ \E cop \in {"+=", "-="}, alias \in BOOLEAN, wraps \in BOOLEAN :
          LET other == IF alias THEN lhsVec ELSE rhsVec
          IN  /\ lhsVec' = IF cop = "+="
                           THEN operator_plus_assign(lhsVec, other, wraps)
                           ELSE operator_minus_assign(lhsVec, other, wraps)
              /\ out' = [op |-> cop, wraps |-> wraps, alias |-> alias,
                         old |-> lhsVec, other |-> other, ret |-> "lhsVec"]
    /\ UNCHANGED <<exprVars, variant, T, rhsVec, seq>>

\* lhs *= n and lhs /= n
AssignScalar ==
    /\ ~Assigned
    /\ \E cop \in {"*=", "/="}, n \in ScalarVals, wraps \in BOOLEAN :
          /\ lhsVec' = IF cop = "*="
                       THEN operator_multiply_assign(lhsVec, n, wraps)
                       ELSE operator_divide_assign(lhsVec, n, wraps)
          /\ out' = [op |-> cop, wraps |-> wraps, alias |-> FALSE,
                     old |-> lhsVec, other |-> n, ret |-> "lhsVec"]
    /\ UNCHANGED <<exprVars, variant, T, rhsVec, seq>>

\* dot_product(lhs, rhs), dot_product(rhs, lhs) and magnitude_squared(lhs)
DotProduct ==
    /\ ~Assigned
    /\ \E wraps \in BOOLEAN :
          out' = [op |-> "dot_product", wraps |-> wraps,
                  res |-> dot_product(lhsVec, rhsVec, wraps),
                  rev |-> dot_product(rhsVec, lhsVec, wraps),
                  msq |-> magnitude_squared(lhsVec, wraps)]
    /\ UNCHANGED <<exprVars, variant, T, lhsVec, rhsVec, seq>>

\* make_difference_expression(lhs, rhs) read at every index: lhs[I] - rhs[I]
difference_expression(l, r, wraps) ==
    [I \in DOMAIN l |-> int_result(difference(l[I], r[I]), wraps)]

\* (a slip: the sum node in place of the difference node)
distance_squared_sum(l, r, wraps) ==
    magnitude_squared([I \in DOMAIN l |-> int_result(sum(l[I], r[I]), wraps)], wraps)

\* distance_squared(lhs, rhs): magnitude_squared of the difference node, which
\* lives to the end of the full expression that reads it.
distance_squared(l, r, wraps) ==
    magnitude_squared(difference_expression(l, r, wraps), wraps)

\* A double holds multiples of 1 / Ulp here.
Ulp == 2 ^ IntBits

NaN == [kind |-> "nan"]

\* std::sqrt(x) of an integer x, rounded down to a multiple of 1 / Ulp; the
\* root of a negative value is not a number.
std_sqrt(x) ==
    IF x < 0 THEN NaN
    ELSE Value(CHOOSE r \in 0 .. (x * Ulp) :
                   r * r <= x * Ulp * Ulp /\ (r + 1) * (r + 1) > x * Ulp * Ulp)

\* magnitude(elements): std::sqrt(magnitude_squared(elements))
magnitude(el, wraps) == std_sqrt(magnitude_squared(el, wraps))

\* distance(lhs, rhs): magnitude of the difference node
distance(l, r, wraps) == magnitude(difference_expression(l, r, wraps), wraps)

\* distance_squared(lhs, rhs), distance_squared(rhs, lhs) and
\* distance_squared(lhs, lhs)
DistanceSquared ==
    /\ ~Assigned
    /\ \E wraps \in BOOLEAN :
          out' = [op |-> "distance_squared", wraps |-> wraps,
                  res |-> distance_squared(lhsVec, rhsVec, wraps),
                  rev |-> distance_squared(rhsVec, lhsVec, wraps),
                  self |-> distance_squared(lhsVec, lhsVec, wraps)]
    /\ UNCHANGED <<exprVars, variant, T, lhsVec, rhsVec, seq>>

\* distance(lhs, rhs), distance(rhs, lhs) and distance(lhs, lhs)
Distance ==
    /\ ~Assigned
    /\ \E wraps \in BOOLEAN :
          out' = [op |-> "distance", wraps |-> wraps,
                  res |-> distance(lhsVec, rhsVec, wraps),
                  rev |-> distance(rhsVec, lhsVec, wraps),
                  self |-> distance(lhsVec, lhsVec, wraps)]
    /\ UNCHANGED <<exprVars, variant, T, lhsVec, rhsVec, seq>>

\* The two builds of dm/vector.h: macro tells whether
\* VECTOR_USE_ELEMENTWISE_EXPRESSION_TEMPLATES is defined. Defined, the class
\* declares from_elementwise_expression, whose body passes the undeclared name
\* value, and the class template is rejected.
class_well_formed(macro) == ~macro

ArithOps == {"negate", "plus", "minus", "multiply", "divide"}

\* The node of an operator over int elements, read at index I.
expression_element(oper, l, r, n, I, wraps) ==
    CASE oper = "negate" -> int_result(negate(l[I]), wraps)
      [] oper = "plus" -> int_result(sum(l[I], r[I]), wraps)
      [] oper = "minus" -> int_result(difference(l[I], r[I]), wraps)
      [] oper = "multiply" -> int_result(product(l[I], n), wraps)
      [] OTHER -> int_divide(l[I], n, wraps)

\* operator_assign_(other, index_sequence<I...>): ((elements_[I] = other[I]), ...)
\* and from_elementwise_expression_: {other[I]...}
operator_assign_(oper, l, r, n, wraps) ==
    [I \in DOMAIN l |-> expression_element(oper, l, r, n, I, wraps)]

\* vector = node, through operator=(const Expression&), which the class
\* declares when the macro is defined.
operator_assign(macro, oper, l, r, n, wraps) ==
    IF macro /\ class_well_formed(macro)
    THEN Value(operator_assign_(oper, l, r, n, wraps))
    ELSE IllFormed

\* The operators of the class, computed directly by elementwise_negate_ ..
\* elementwise_divide_, which exist when the macro is not defined.
operator_direct(macro, oper, l, r, n, wraps) ==
    IF ~macro /\ class_well_formed(macro)
    THEN Value(CASE oper = "negate" -> operator_negate(l, wraps)
                 [] oper = "plus" -> operator_plus(l, r, wraps)
                 [] oper = "minus" -> operator_minus(l, r, wraps)
                 [] oper = "multiply" -> operator_multiply(l, n, wraps)
                 [] OTHER -> operator_divide(l, n, wraps))
    ELSE IllFormed

\* One operator on both paths: the node assigned in the build that defines
\* the macro, the direct computation in the build that does not.
ExpressionPath ==
    /\ ~Assigned
    /\ \E oper \in ArithOps, n \in ScalarVals, wraps \in BOOLEAN :
          out' = [op |-> "expression_path", oper |-> oper, n |-> n, wraps |-> wraps,
                  assigned |-> operator_assign(TRUE, oper, lhsVec, rhsVec, n, wraps),
                  direct |-> operator_direct(FALSE, oper, lhsVec, rhsVec, n, wraps)]
    /\ UNCHANGED <<exprVars, variant, T, lhsVec, rhsVec, seq>>

NextArith ==
    \/ Negate
    \/ Add
    \/ Subtract
    \/ Multiply
    \/ Divide
    \/ AssignVector
    \/ AssignScalar
    \/ DotProduct
    \/ DistanceSquared
    \/ Distance
    \/ ExpressionPath

SpecArith == InitArith /\ [][NextArith]_vars

\* ---------------------------------------------------- claims on arithmetic

\* C13: addition is element-wise, (a + b)[i] == a[i] + b[i] at every i (the
\* exact sum wherever it is a value of the element type), and commutative,
\* a + b == b + a.
C13_AddElementwiseCommutative ==
    out.op = "add" =>
        /\ \A i \in DOMAIN lhsVec :
              /\ out.res[i] = int_result(lhsVec[i] + rhsVec[i], out.wraps)
              /\ InRange(lhsVec[i] + rhsVec[i])
                    => out.res[i] = lhsVec[i] + rhsVec[i]
        /\ Vector_operator_equal(out.res, out.rev)

\* Two different 2-dimensional vectors added, position by position.
C13_Witness ==
    /\ out.op = "add"
    /\ Dim(lhsVec) = 2
    /\ lhsVec = [i \in 0 .. 1 |-> IF i = 0 THEN -1 ELSE 2]
    /\ rhsVec = [i \in 0 .. 1 |-> IF i = 0 THEN 2 ELSE 2]
    /\ out.res = [i \in 0 .. 1 |-> IF i = 0 THEN 1 ELSE 4]
    /\ out.rev = out.res

Zero(N) == [i \in 0 .. (N - 1) |-> 0]

\* Every element of the exact result f is a value of the element type.
AllInRange(f) == \A i \in DOMAIN f : InRange(f[i])

\* C14: with every element result in range, a - a is the zero vector,
\* (a + b) - b == a, and -(-a) == a.
C14_SubtractNegateIdentities ==
    /\ out.op = "subtract" =>
          /\ Vector_operator_equal(out.self, Zero(Dim(lhsVec)))
          /\ AllInRange([i \in DOMAIN lhsVec |-> lhsVec[i] + rhsVec[i]])
                => Vector_operator_equal(out.round, lhsVec)
    /\ out.op = "negate" =>
          (AllInRange([i \in DOMAIN lhsVec |-> -lhsVec[i]])
              => Vector_operator_equal(out.twice, lhsVec))

\* (a + b) - b with a sum that is in range and a and b different.
C14_Witness ==
    /\ out.op = "subtract"
    /\ Dim(lhsVec) = 2
    /\ lhsVec[0] = -1 /\ lhsVec[1] = numeric_limits_min("int")
    /\ rhsVec[0] = 2 /\ rhsVec[1] = numeric_limits_max("int")
    /\ out.round = lhsVec
    /\ out.self = Zero(2)

\* C15: scalar multiply and divide are element-wise, (v * n)[i] == v[i] * n
\* and (v / n)[i] == v[i] / n; n * v == v * n; and for n # 0 without overflow
\* (v * n) / n == v.
C15_ScalarMultiplyDivide ==
    /\ out.op = "multiply" =>
          /\ \A i \in DOMAIN lhsVec :
                InRange(lhsVec[i] * out.n) => out.res[i] = lhsVec[i] * out.n
          /\ Vector_operator_equal(out.left, out.res)
          /\ (out.n # 0 /\ AllInRange([i \in DOMAIN lhsVec |-> lhsVec[i] * out.n]))
                => Vector_operator_equal(out.back, lhsVec)
    /\ out.op = "divide" =>
          \A i \in DOMAIN lhsVec :
              (out.n # 0 /\ InRange(CQuotient(lhsVec[i], out.n)))
                  => out.res[i] = CQuotient(lhsVec[i], out.n)

\* A vector with a negative element doubled and halved again.
C15_Witness ==
    /\ out.op = "multiply"
    /\ out.n = 2
    /\ Dim(lhsVec) = 2
    /\ lhsVec[0] = -1 /\ lhsVec[1] = 2
    /\ out.res[0] = -2 /\ out.res[1] = 4
    /\ out.left = out.res
    /\ out.back = lhsVec

\* A division that truncates toward zero: -1 / 2 == 0.
C15_WitnessDivide ==
    /\ out.op = "divide"
    /\ out.n = 2
    /\ lhsVec[0] = -1
    /\ out.res[0] = 0

\* C16: a compound assignment assigns the binary result: after a += b,
\* a -= b, a *= n, a /= n the value of a is (old a) + b, (old a) - b,
\* (old a) * n, (old a) / n, the right-hand vector is unchanged and the
\* reference returned is a; also when the right-hand operand is a itself.
C16_CompoundAssignment ==
    [][(out'.op \in CompoundOps /\ out.op \notin CompoundOps) =>
          LET other == IF out'.alias THEN lhsVec ELSE rhsVec
              w == out'.wraps
          IN  /\ rhsVec' = rhsVec
              /\ out'.ret = "lhsVec"
              /\ out'.old = lhsVec
              /\ out'.op = "+=" => lhsVec' = operator_plus(lhsVec, other, w)
              /\ out'.op = "-=" => lhsVec' = operator_minus(lhsVec, other, w)
              /\ out'.op = "*=" => lhsVec' = operator_multiply(lhsVec, out'.other, w)
              /\ out'.op = "/=" => lhsVec' = operator_divide(lhsVec, out'.other, w)
      ]_vars

\* a -= a on a vector that is not zero: a becomes the zero vector.
C16_Witness ==
    /\ out.op = "-="
    /\ out.alias
    /\ Dim(lhsVec) = 2
    /\ out.old[0] = 2 /\ out.old[1] = -1
    /\ out.other = out.old
    /\ lhsVec = Zero(2)

\* The products and the sums of dot_product(l, r) are values of int.
DotInRange(l, r) ==
    LET e == [i \in DOMAIN l |-> l[i] * r[i]]
    IN  \A k \in DOMAIN l :
            InRange(e[k]) /\ InRange(sum_pack(e, k, Dim(l) - 1))

\* C20: dot_product(a, b) is the sum of a[i] * b[i] over i < N and is
\* symmetric; magnitude_squared(a) == dot_product(a, a), and is >= 0 when the
\* squared sum does not overflow.
C20_DotProduct ==
    out.op = "dot_product" =>
        /\ DotInRange(lhsVec, rhsVec) =>
              out.res = element_sum([i \in DOMAIN lhsVec |-> lhsVec[i] * rhsVec[i]],
                                    Dim(lhsVec))
        /\ out.res = out.rev
        /\ out.msq = dot_product(lhsVec, lhsVec, out.wraps)
        /\ DotInRange(lhsVec, lhsVec) => out.msq >= 0

\* <-1, 2> . <2, 2> == 2, and |<-1, 2>|^2 == 5
C20_Witness ==
    /\ out.op = "dot_product"
    /\ Dim(lhsVec) = 2
    /\ lhsVec[0] = -1 /\ lhsVec[1] = 2
    /\ rhsVec[0] = 2 /\ rhsVec[1] = 2
    /\ out.res = 2
    /\ out.rev = 2
    /\ out.msq = 5

\* ------------------------------------------- claims on the named constructors

\* The vector with 1 at the axis and 0 at every other position.
UnitVector(axis, N) == [i \in 0 .. (N - 1) |-> IF i = axis THEN 1 ELSE 0]

\* C17: unit(axis) for axis < N is the vector with 1 at the axis and 0
\* elsewhere; make_unit<D>() and make_unit(d) agree for D == d; make_unit(d)
\* with d >= N never returns a vector (Vector of dm/vector.h).
C17_UnitVector ==
    variant = "Vector" =>
        /\ out.op = "unit" =>
              /\ out.res.val = UnitVector(out.axis, Dim(lhsVec))
              /\ \A ndebug \in BOOLEAN :
                    Vector_make_unit(out.axis, Dim(lhsVec), ndebug) = out.res
        /\ (out.op = "make_unit" /\ out.axis < Dim(lhsVec)) =>
              out.res = Returned(UnitVector(out.axis, Dim(lhsVec)), DOMAIN lhsVec)
        /\ (out.op = "make_unit" /\ out.axis >= Dim(lhsVec)) =>
              out.res = Aborted

ConstructorOps == {"unit", "make_unit", "make_repeated"}

\* C18: every vector a constructor returns has exactly N elements, none of
\* them uninitialized; every element of a unit vector but the axis one is 0,
\* in all three vector types.
C18_AllElementsInitialized ==
    (out.op \in ConstructorOps /\ out.res # Aborted) =>
        /\ DOMAIN out.res.val = DOMAIN lhsVec
        /\ out.res.written = DOMAIN lhsVec
        /\ (out.op \in {"unit", "make_unit"} /\ out.axis < Dim(lhsVec)) =>
              \A i \in DOMAIN lhsVec : i # out.axis => out.res.val[i] = 0

\* C19: make_repeated(value) returns v with v[i] == value at every i < N,
\* for every N >= 1.
C19_MakeRepeated ==
    out.op = "make_repeated" =>
        /\ DOMAIN out.res.val = 0 .. (Dim(lhsVec) - 1)
        /\ \A i \in 0 .. (Dim(lhsVec) - 1) : out.res.val[i] = out.value

\* make_repeated(-1) of a Vec3 of dm/vector.h
C19_Witness ==
    /\ out.op = "make_repeated"
    /\ variant = "Vector"
    /\ Dim(lhsVec) = 3
    /\ out.value = -1
    /\ out.res.val = [i \in 0 .. 2 |-> -1]

\* The differences, their squares and the sums of the squares of
\* distance_squared(l, r) are values of int.
DistanceInRange(l, r) ==
    LET d == [i \in DOMAIN l |-> l[i] - r[i]]
    IN  AllInRange(d) /\ DotInRange(d, d)

\* The sum over i of (l[i] - r[i])^2.
SquaredDistance(l, r) ==
    element_sum([i \in DOMAIN l |-> (l[i] - r[i]) * (l[i] - r[i])], Dim(l))

\* v is the square root of x, to within 1 / Ulp.
IsRootOf(v, x) ==
    /\ v.kind = "value"
    /\ v.val >= 0
    /\ v.val * v.val <= x * Ulp * Ulp
    /\ (v.val + 1) * (v.val + 1) > x * Ulp * Ulp

\* C21: distance_squared(a, b) is the sum over i of (a[i] - b[i])^2 and
\* distance(a, b) is its square root; both are symmetric in a and b, and both
\* are 0 when a == b (where no difference, square or sum overflows).
C21_Distance ==
    /\ out.op = "distance_squared" =>
          /\ DistanceInRange(lhsVec, rhsVec) =>
                out.res = SquaredDistance(lhsVec, rhsVec)
          /\ DistanceInRange(lhsVec, rhsVec) /\ DistanceInRange(rhsVec, lhsVec) =>
                out.res = out.rev
          /\ out.self = 0
          /\ lhsVec = rhsVec => out.res = 0
    /\ out.op = "distance" =>
          /\ DistanceInRange(lhsVec, rhsVec) =>
                IsRootOf(out.res, SquaredDistance(lhsVec, rhsVec))
          /\ DistanceInRange(lhsVec, rhsVec) /\ DistanceInRange(rhsVec, lhsVec) =>
                out.res = out.rev
          /\ out.self = Value(0)
          /\ lhsVec = rhsVec => out.res = Value(0)

\* distance(<0, -1>, <2, 0>) is the root of 5, in both orders
C21_Witness ==
    /\ out.op = "distance"
    /\ Dim(lhsVec) = 2
    /\ lhsVec[0] = 0 /\ lhsVec[1] = -1
    /\ rhsVec[0] = 2 /\ rhsVec[1] = 0
    /\ IsRootOf(out.res, 5)
    /\ out.res = out.rev

\* ---------------------------------------------------------------------------
\* Absolute differences and the distances built on them: math.h, the free
\* functions of dm/vector.h over dm::geom::Vector and the static members of
\* dm::geom::Vec (vec.h), for the element types int, unsigned and float.

\* The element types; a float is counted in halves (1 stands for 0.5).
MetricTypes == {"int", "unsigned", "float"}

Den(t) == IF t = "float" THEN 2 ELSE 1

MetricVals(t) ==
    CASE t = "int" -> {numeric_limits_min("int"), -1, 0, 2}
      [] t = "unsigned" -> {0, 1, 2, 2 ^ IntBits - 1}
      [] OTHER -> {-1, 0, 1, 2}

MetricVectors(t) == UNION {[0 .. (N - 1) -> MetricVals(t)] : N \in ArithDims}

\* A result of type t whose exact value is x: unsigned arithmetic is modulo
\* 2^IntBits, a signed overflow is undefined behaviour, a float is exact here.
type_result(t, x, wraps) ==
    CASE t = "unsigned" -> x % (2 ^ IntBits)
      [] t = "int" -> int_result(x, wraps)
      [] OTHER -> x

\* math::abs_difference(lhs, rhs) and Vec::abs_difference_(lhs, rhs), on
\* operands of type t: (lhs < rhs) ? rhs - lhs : lhs - rhs
abs_difference_(t, lhs, rhs, wraps) ==
    IF lhs < rhs THEN type_result(t, rhs - lhs, wraps)
                 ELSE type_result(t, lhs - rhs, wraps)

\* Vec::abs_differences_(lhs, rhs, index_sequence<I...>)
abs_differences_(t, l, r, wraps) ==
    [I \in DOMAIN l |-> abs_difference_(t, l[I], r[I], wraps)]

\* The functions namespace dm::math declares.
math_declared == {"abs_difference"}

\* A call math::name(lhs_el, rhs_el): a name the namespace does not declare
\* makes the program ill-formed.
math_call(name, t, lhs_el, rhs_el, wraps) ==
    IF name \in math_declared
    THEN Value(abs_difference_(t, lhs_el, rhs_el, wraps))
    ELSE IllFormed

\* make_absolute_difference_expression(lhs, rhs) read at every index: its
\* lambda returns math::absolute_difference(lhs_el, rhs_el).
make_absolute_difference_expression(t, l, r, wraps) ==
    [I \in DOMAIN l |-> math_call("absolute_difference", t, l[I], r[I], wraps)]

\* geom::max_element(node): internal::max(object[I]...). A pack of one
\* element selects the variadic max, whose max(elements...) then has no
\* argument and no overload.
geom_max_element(e, n) ==
    IF n < 2 THEN IllFormed ELSE Value(max_element(e, n))

\* geom::element_sum(node) over elements of type t: (object[I] + ...)
RECURSIVE geom_element_sum(_, _, _, _, _)
geom_element_sum(t, e, lo, hi, wraps) ==
    IF lo = hi THEN e[lo]
    ELSE type_result(t, e[lo] + geom_element_sum(t, e, lo + 1, hi, wraps), wraps)

\* chebyshev_distance(lhs, rhs) of dm/vector.h: max_element of the
\* absolute-difference node, its callee spelled as math.h declares it.
Vector_chebyshev_distance(t, l, r, wraps) ==
    geom_max_element([I \in DOMAIN l |->
                         math_call("abs_difference", t, l[I], r[I], wraps).val],
                     Dim(l))

\* manhattan_distance(lhs, rhs) of dm/vector.h: element_sum of the same node
Vector_manhattan_distance(t, l, r, wraps) ==
    Value(geom_element_sum(
              t,
              [I \in DOMAIN l |->
                  math_call("abs_difference", t, l[I], r[I], wraps).val],
              0, Dim(l) - 1, wraps))

\* Vec::chebyshev_distance: *std::max_element over abs_differences_
geom_Vec_chebyshev_distance(t, l, r, wraps) ==
    Value(max_pack(abs_differences_(t, l, r, wraps), 0, Dim(l) - 1))

\* The conversion of a value x of type t to int, as a count of whole units: a
\* float is truncated toward zero, an unsigned value above the largest int
\* wraps around.
to_int(t, x, wraps) ==
    CASE t = "float" -> int_result(TruncDiv(x, Den(t)), wraps)
      [] t = "unsigned" -> Wrap(x)
      [] OTHER -> x

\* std::accumulate(first, last, 0) over e[k ..]: the accumulator has the type
\* of the initial value 0, which is int; every acc + *first is computed in
\* the common type of int and t and converted back to int.
RECURSIVE accumulate(_, _, _, _, _)
accumulate(t, e, k, acc, wraps) ==
    IF k = Dim(e) THEN acc
    ELSE accumulate(t, e, k + 1,
                    to_int(t, type_result(t, acc * Den(t) + e[k], wraps), wraps),
                    wraps)

\* Vec::manhattan_distance: std::accumulate over abs_differences_, returned
\* as T
geom_Vec_manhattan_distance(t, l, r, wraps) ==
    Value(type_result(
              t,
              accumulate(t, abs_differences_(t, l, r, wraps), 0, 0, wraps) * Den(t),
              wraps))

chebyshev_distance(vt, t, l, r, wraps) ==
    IF vt = "Vector" THEN Vector_chebyshev_distance(t, l, r, wraps)
                     ELSE geom_Vec_chebyshev_distance(t, l, r, wraps)

manhattan_distance(vt, t, l, r, wraps) ==
    IF vt = "Vector" THEN Vector_manhattan_distance(t, l, r, wraps)
                     ELSE geom_Vec_manhattan_distance(t, l, r, wraps)

\* Two vectors of one dimension and one element type; no operation yet.
InitMetric ==
    /\ ExprIdle
    /\ variant \in {"Vector", "geom_Vec"}
    /\ T \in MetricTypes
    /\ lhsVec \in MetricVectors(T)
    /\ rhsVec \in MetricVectors(T)
    /\ Dim(lhsVec) = Dim(rhsVec)
    /\ seq = <<>>
    /\ out = NoOut

\* abs_difference(lhs[0], rhs[0]) and abs_difference(rhs[0], lhs[0])
AbsDifference ==
    /\ \E wraps \in BOOLEAN :
          out' = [op |-> "abs_difference", wraps |-> wraps,
                  res |-> abs_difference_(T, lhsVec[0], rhsVec[0], wraps),
                  rev |-> abs_difference_(T, rhsVec[0], lhsVec[0], wraps)]
    /\ UNCHANGED <<exprVars, variant, T, lhsVec, rhsVec, seq>>

\* make_absolute_difference_expression(lhs, rhs), read at every index
AbsoluteDifferenceExpression ==
    /\ variant = "Vector"
    /\ \E wraps \in BOOLEAN :
          out' = [op |-> "absolute_difference_expression", wraps |-> wraps,
                  res |-> make_absolute_difference_expression(T, lhsVec, rhsVec, wraps)]
    /\ UNCHANGED <<exprVars, variant, T, lhsVec, rhsVec, seq>>

\* chebyshev_distance(lhs, rhs) and chebyshev_distance(rhs, lhs)
ChebyshevDistance ==
    /\ \E wraps \in BOOLEAN :
          out' = [op |-> "chebyshev_distance", wraps |-> wraps,
                  res |-> chebyshev_distance(variant, T, lhsVec, rhsVec, wraps),
                  rev |-> chebyshev_distance(variant, T, rhsVec, lhsVec, wraps)]
    /\ UNCHANGED <<exprVars, variant, T, lhsVec, rhsVec, seq>>

\* manhattan_distance(lhs, rhs) and manhattan_distance(rhs, lhs)
ManhattanDistance ==
    /\ \E wraps \in BOOLEAN :
          out' = [op |-> "manhattan_distance", wraps |-> wraps,
                  res |-> manhattan_distance(variant, T, lhsVec, rhsVec, wraps),
                  rev |-> manhattan_distance(variant, T, rhsVec, lhsVec, wraps)]
    /\ UNCHANGED <<exprVars, variant, T, lhsVec, rhsVec, seq>>

NextMetric ==
    \/ AbsDifference
    \/ AbsoluteDifferenceExpression
    \/ ChebyshevDistance
    \/ ManhattanDistance

SpecMetric == InitMetric /\ [][NextMetric]_vars

\* |x - y|
Abs(x) == IF x < 0 THEN 0 - x ELSE x

\* The largest value of type t, in the units of t.
TypeMax(t) ==
    CASE t = "unsigned" -> 2 ^ IntBits - 1
      [] t = "int" -> numeric_limits_max("int")
      [] OTHER -> Den(t) * numeric_limits_max("int")

\* The exact absolute differences of l and r, and whether they and their sum
\* are values of type t.
AbsDiffs(l, r) == [i \in DOMAIN l |-> Abs(l[i] - r[i])]

AbsDiffsInRange(t, l, r) ==
    element_sum(AbsDiffs(l, r), Dim(l)) <= TypeMax(t)

\* C22: chebyshev_distance(a, b) is the maximum over i < N of |a[i] - b[i]|
\* for every N >= 1 and every pair of same-dimension operands; it is
\* symmetric, and 0 iff a == b.
C22_Chebyshev ==
    out.op = "chebyshev_distance" /\ AbsDiffsInRange(T, lhsVec, rhsVec) =>
        /\ out.res = Value(max_element(AbsDiffs(lhsVec, rhsVec), Dim(lhsVec)))
        /\ out.res = out.rev
        /\ out.res = Value(0) <=> lhsVec = rhsVec

\* C22, from two dimensions on and for every dimension of vec.h
C22_ChebyshevFromTwo ==
    Dim(lhsVec) >= 2 \/ variant = "geom_Vec" => C22_Chebyshev

\* C23: manhattan_distance(a, b) is the sum over i < N of |a[i] - b[i]| for
\* every pair of same-dimension operands; it is symmetric, and 0 iff a == b.
C23_Manhattan ==
    out.op = "manhattan_distance" /\ AbsDiffsInRange(T, lhsVec, rhsVec) =>
        /\ out.res = Value(element_sum(AbsDiffs(lhsVec, rhsVec), Dim(lhsVec)))
        /\ out.res = out.rev
        /\ out.res = Value(0) <=> lhsVec = rhsVec

\* C23, for dm/vector.h and for the integer element types of vec.h
C23_ManhattanExact ==
    variant = "Vector" \/ T # "float" => C23_Manhattan

\* At most one dimension of l and r differs.
AtMostOneDiffers(l, r) ==
    Cardinality({i \in DOMAIN l : l[i] # r[i]}) <= 1

\* C24: for all a, b of the same dimension N >= 1, chebyshev_distance(a, b) <=
\* manhattan_distance(a, b), with equality when at most one dimension differs.
C24_ChebyshevAtMostManhattan ==
    out.op = "chebyshev_distance" /\ AbsDiffsInRange(T, lhsVec, rhsVec) =>
        LET m == manhattan_distance(variant, T, lhsVec, rhsVec, out.wraps)
        IN  /\ out.res.kind = "value"
            /\ out.res.val <= m.val
            /\ AtMostOneDiffers(lhsVec, rhsVec) => out.res.val = m.val

\* C24, from two dimensions on in dm/vector.h and for the integer element
\* types of vec.h
C24_FromTwoExact ==
    (IF variant = "Vector" THEN Dim(lhsVec) >= 2 ELSE T # "float")
        => C24_ChebyshevAtMostManhattan

\* The values of absolute_difference: never wrapped for unsigned operands,
\* |a - b|, symmetric, never negative, 0 iff a == b.
C25_AbsDifferenceValues ==
    out.op = "abs_difference" /\ Abs(lhsVec[0] - rhsVec[0]) <= TypeMax(T) =>
        /\ out.res = Abs(lhsVec[0] - rhsVec[0])
        /\ out.res = out.rev
        /\ out.res >= 0
        /\ out.res = 0 <=> lhsVec[0] = rhsVec[0]

\* C25: absolute_difference(a, b) is (a < b) ? b - a : a - b, which for
\* unsigned operands never wraps and equals |a - b|; it is symmetric, never
\* negative and 0 iff a == b; the absolute-difference expression factory
\* applies exactly this function per element.
C25_AbsoluteDifference ==
    /\ C25_AbsDifferenceValues
    /\ out.op = "absolute_difference_expression" =>
          \A i \in DOMAIN lhsVec :
              out.res[i] = Value(abs_difference_(T, lhsVec[i], rhsVec[i], out.wraps))

\* C29: the derived comparison operators are consistent with < and ==:
\* a > b iff b < a; a <= b iff not (b < a); a >= b iff not (a < b);
\* a <= b iff (a < b or a == b); a >= b iff (a > b or a == b).
C29_DerivedComparisons ==
    out.op = "compare" =>
        /\ out.gt <=> operator_less(variant, rhsVec, lhsVec)
        /\ out.le <=> ~operator_less(variant, rhsVec, lhsVec)
        /\ out.ge <=> ~out.lt
        /\ out.le <=> (out.lt \/ out.eq)
        /\ out.ge <=> (out.gt \/ out.eq)

\* C29, for dm/vector.h
C29_DerivedOfVector ==
    variant = "Vector" => C29_DerivedComparisons

\* C29, the three derivations from < alone, for every vector type
C29_DerivedFromLess ==
    out.op = "compare" =>
        /\ out.gt <=> operator_less(variant, rhsVec, lhsVec)
        /\ out.le <=> ~operator_less(variant, rhsVec, lhsVec)
        /\ out.ge <=> ~out.lt

\* ---------------------------------------------------------------------------
\* The dimensions of expression trees: the factories and std::tuple_size of
\* elementwise.h, and the reductions of dm/vector.h over operands whose
\* dimensions may differ. Each action is one full expression over the named
\* containers lhsVec and rhsVec and the scalar s, so no operand dies early.

ShapeDims == {1, 2}
ShapeVals == {1, 2}
ShapeVectors == UNION {[0 .. (N - 1) -> ShapeVals] : N \in ShapeDims}

\* The operands of a tree: a scalar, a container, or a node over two operands.
ScalarOperand(v) == [kind |-> "scalar", val |-> v]
Node(op, l, r) == [kind |-> "node", op |-> op, args |-> <<l, r>>]

\* make_sum_expression(lhs, rhs) .. make_quotient_expression(lhs, rhs): the
\* node is built from any two operands; no dimension is compared.
make_expression(op, l, r) == Node(op, l, r)

Leaves == {Container(lhsVec), Container(rhsVec), ScalarOperand(s)}
Trees1 == {make_expression(op, l, r) : op \in BinaryOps, l \in Leaves, r \in Leaves}
Trees2 ==
    LET inner == {make_expression("sum", l, r) : l \in Leaves, r \in Leaves}
    IN  {make_expression(op, x, y) : op \in BinaryOps, x \in inner, y \in Leaves}
          \cup {make_expression(op, y, x) : op \in BinaryOps, x \in inner, y \in Leaves}

\* The dimensions of the containers under x.
RECURSIVE ContainerDims(_)
ContainerDims(x) ==
    CASE x.kind = "container" -> {Dim(x.elems)}
      [] x.kind = "node" -> ContainerDims(x.args[1]) \cup ContainerDims(x.args[2])
      [] OTHER -> {}

\* std::tuple_size: of a container its length; of a node the tuple_size of its
\* first operand; of a scalar an incomplete type, which is ill-formed to use.
RECURSIVE tuple_size(_)
tuple_size(x) ==
    CASE x.kind = "container" -> Value(Dim(x.elems))
      [] x.kind = "node" -> tuple_size(x.args[1])
      [] OTHER -> IllFormed

\* element(operand, i), and node[i] through it: a container is subscripted
\* without a bounds check (a read past its end is undefined behaviour and
\* yields g), a scalar is itself, a node applies its closure.
RECURSIVE tree_element(_, _, _)
tree_element(x, i, g) ==
    CASE x.kind = "container" ->
            [val |-> IF i < Dim(x.elems) THEN x.elems[i] ELSE g,
             reads |-> {[len |-> Dim(x.elems), pos |-> i]}]
      [] x.kind = "node" ->
            LET e1 == tree_element(x.args[1], i, g)
                e2 == tree_element(x.args[2], i, g)
            IN  [val |-> operator_(x.op, <<e1.val, e2.val>>),
                 reads |-> e1.reads \cup e2.reads]
      [] OTHER -> [val |-> x.val, reads |-> {}]

\* The result of one expression over trees.
Shaped(op, operands, size, rejected, reads, res) ==
    [op |-> op, operands |-> operands, size |-> size, rejected |-> rejected,
     reads |-> reads, res |-> res]

\* geom::element_sum(x) and geom::max_element(x): every I below size_v<T>
reduce_tree(red, x, g) ==
    LET n == tuple_size(x)
    IN  IF n = IllFormed
        THEN Shaped(red, <<x>>, n, TRUE, {}, IllFormed)
        ELSE LET f == [I \in 0 .. (n.val - 1) |-> tree_element(x, I, g)]
                 v == [I \in 0 .. (n.val - 1) |-> f[I].val]
             IN  Shaped(red, <<x>>, n, FALSE,
                        UNION {f[I].reads : I \in 0 .. (n.val - 1)},
                        IF red = "max_element" THEN geom_max_element(v, n.val)
                        ELSE Value(element_sum(v, n.val)))

\* The node a reduction of two operands reduces, and how.
reduction_node(red, l, r) ==
    CASE red = "dot_product" -> make_expression("product", l, r)
      [] red \in {"distance_squared", "distance"} ->
            LET d == make_expression("difference", l, r)
            IN  make_expression("product", d, d)
      [] OTHER -> make_expression("absolute_difference", l, r)

\* dot_product, distance_squared, distance, chebyshev_distance and
\* manhattan_distance: static_assert(size_v<Lhs> == size_v<Rhs>), then the
\* reduction of the node over both operands.
reduction(red, l, r, g) ==
    IF tuple_size(l) = IllFormed \/ tuple_size(l) # tuple_size(r)
    THEN Shaped(red, <<l, r>>, IllFormed, TRUE, {}, IllFormed)
    ELSE LET t == reduce_tree(IF red = "chebyshev_distance"
                              THEN "max_element" ELSE "element_sum",
                              reduction_node(red, l, r), g)
         IN  Shaped(red, <<l, r>>, t.size, FALSE, t.reads,
                    IF red = "distance" /\ t.res # IllFormed
                    THEN std_sqrt(t.res.val) ELSE t.res)

Reductions ==
    {"dot_product", "distance_squared", "distance", "chebyshev_distance",
     "manhattan_distance"}

\* Two containers, of equal or different dimension; no expression yet.
InitShape ==
    /\ ExprIdle
    /\ variant = "Vector"
    /\ T = "int"
    /\ lhsVec \in ShapeVectors
    /\ rhsVec \in ShapeVectors
    /\ seq = <<>>
    /\ out = NoOut

\* The expressions share no state: a run evaluates one of them.
Evaluated == out # NoOut

\* auto e = make_..._expression(...); std::tuple_size_v<decltype(e)>
MakeTree ==
    /\ ~Evaluated
    /\ \E x \in Trees1 \cup Trees2 :
          out' = Shaped("make_expression", <<x>>, tuple_size(x), FALSE, {}, IllFormed)
    /\ UNCHANGED <<exprVars, variant, T, lhsVec, rhsVec, seq>>

\* make_..._expression(...)[i], at a position i of one of its containers
IndexTree ==
    /\ ~Evaluated
    /\ \E x \in Trees1 \cup Trees2, i \in 0 .. 1, g \in Garbage :
          /\ \E n \in ContainerDims(x) : i < n
          /\ LET e == tree_element(x, i, g)
             IN  out' = Shaped("index", <<x>>, tuple_size(x), FALSE, e.reads,
                               Value(e.val))
    /\ UNCHANGED <<exprVars, variant, T, lhsVec, rhsVec, seq>>

\* element_sum(make_..._expression(...)) and max_element(...)
ReduceTree ==
    /\ ~Evaluated
    /\ \E x \in Trees1, red \in {"element_sum", "max_element"}, g \in Garbage :
          out' = reduce_tree(red, x, g)
    /\ UNCHANGED <<exprVars, variant, T, lhsVec, rhsVec, seq>>

\* A reduction of two operands: containers, or a node and a container
ReduceOperands ==
    /\ ~Evaluated
    /\ \E red \in Reductions, g \in Garbage,
          l \in {Container(lhsVec), Container(rhsVec)} \cup Trees1,
          r \in {Container(lhsVec), Container(rhsVec)} :
          out' = reduction(red, l, r, g)
    /\ UNCHANGED <<exprVars, variant, T, lhsVec, rhsVec, seq>>

NextShape ==
    \/ MakeTree
    \/ IndexTree
    \/ ReduceTree
    \/ ReduceOperands

SpecShape == InitShape /\ [][NextShape]_vars

ShapeOps == {"make_expression", "index", "element_sum", "max_element"} \cup Reductions

\* The containers under the operands of the expression.
OperandDims(operands) ==
    UNION {ContainerDims(operands[k]) : k \in DOMAIN operands}

\* C26: a dimension mismatch is rejected up front: building a tree through a
\* factory, or calling a reduction, whose container operands do not all have
\* the same dimension is rejected before any element is read; no index read
\* reaches a position at or beyond an operand's length.
C26_MismatchRejected ==
    out.op \in ShapeOps =>
        /\ Cardinality(OperandDims(out.operands)) > 1 =>
              out.rejected /\ out.reads = {}
        /\ \A rd \in out.reads : rd.pos < rd.len

\* C26, for a reduction called on two containers
C26_ContainersRejected ==
    (out.op \in Reductions
        /\ \A k \in DOMAIN out.operands : out.operands[k].kind = "container")
    => C26_MismatchRejected

\* The first operand of x, and of that, down to a leaf.
RECURSIVE FirstLeaf(_)
FirstLeaf(x) == IF x.kind = "node" THEN FirstLeaf(x.args[1]) ELSE x

\* C27: the dimension (tuple_size) of a node is the dimension of its container
\* operands, whichever position the container occupies: sum(s, a) has the
\* dimension of sum(a, s); a nested node reports the dimension of its inner
\* container operands.
C27_NodeDimension ==
    out.op = "make_expression" =>
        \A n \in ShapeDims :
            OperandDims(out.operands) = {n} => out.size = Value(n)

\* C27, for a node whose first operands lead to a container
C27_ContainerFirst ==
    out.op = "make_expression" /\ FirstLeaf(out.operands[1]).kind = "container"
        => C27_NodeDimension

\* C28: the two implementations of vector arithmetic agree: for every operator
\* (unary -, +, -, * scalar, / scalar) the vector obtained by reading the
\* expression node at every index and assigning it, the path the macro
\* enables, equals the vector computed directly per index.
C28_PathsAgree ==
    out.op = "expression_path" => out.assigned = out.direct

\* C28, for the assignment of lines 171-175 taken alone
C28_AssignmentAgrees ==
    out.op = "expression_path" =>
        Value(operator_assign_(out.oper, lhsVec, rhsVec, out.n, out.wraps)) = out.direct

====
